---- MODULE Spec2Model ----
(***************************************************************************)
(* Model of src/app.py: the map-reduce summarization pipeline of the File  *)
(* Summarizer.  One behaviour is one press of "Generate Summary": text     *)
(* extraction, the blank guard, chunking, one blocking language-model      *)
(* request per chunk of chunks[:6], the newline join, the mode dispatch,   *)
(* the reduce request and the display of the result.                       *)
(*                                                                         *)
(* Python strings are TLA+ strings; TLC evaluates Len, \o, SubSeq and Tail *)
(* on them.  A blocking call client.chat.completions.create(...) is split  *)
(* at the network boundary into the request leaving and the response (or   *)
(* the exception) coming back, so that requests in flight are visible.     *)
(***************************************************************************)
EXTENDS Integers, Sequences, FiniteSets, TLC

VARIABLES
    pc,                 \* position of the script / of the chunk_text call
    uploaded_file,      \* st.file_uploader(...) value
    summary_type,       \* st.selectbox(...) value
    text,               \* extract_text(uploaded_file)
    max_chars,          \* chunk_text's max_chars argument
    chunks,             \* chunk_text(text)
    partial_summaries,  \* list built by the MAP STEP
    combined_text,      \* "\n".join(partial_summaries)
    final_prompt,       \* system prompt chosen by SUMMARY MODES
    max_tokens,         \* budget chosen by SUMMARY MODES
    final_response,     \* content of the reduce response
    requests,           \* every request sent to the capability, in order
    ui                  \* elements the script has put on the page, in order

vars == <<pc, uploaded_file, summary_type, text, max_chars, chunks,
          partial_summaries, combined_text, final_prompt, max_tokens,
          final_response, requests, ui>>

----------------------------------------------------------------------------
(* Bounds of the model *)

\* the longest document of the pipeline runs has MaxBlocks * MaxChars + 1 characters
MaxBlocks == 10
\* the chunk_text calls of SpecChunk: texts of at most MaxLen characters,
\* max_chars in 1..MaxM
MaxLen == 5
MaxM == 4

----------------------------------------------------------------------------
(* Program constants *)

MODEL == "llama-3.1-8b-instant"

\* def chunk_text(text, max_chars=3000)
MaxChars == 3000

\* for chunk in chunks[:6]
MapCap == 6

MapMaxTokens == 120

MapPrompt == "Extract only key ideas. No explanations."

ShortLabel == "Short Summary (Recommended)"
TopicLabel == "Topic-wise Summary"
BulletLabel == "Bullet-point Summary"

SummaryTypes == {ShortLabel, TopicLabel, BulletLabel}

\* The three final_prompt literals.  The source writes "120-150", "2-3" and
\* "8-12" with an en dash, which is written "-" here.
ShortPrompt ==
    "\nWrite a concise executive-style summary.\n\nRULES:\n- One short paragraph\n- Simple language\n- No headings\n- No definitions\n- Focus on overall meaning\n- 120-150 tokens\n"

TopicPrompt ==
    "\nCreate a TOPIC-WISE summary.\n\nRULES:\n- Use clear topic headings\n- 2-3 short sentences per topic\n- Simple student-friendly language\n- No formulas or definitions\n- Do not repeat topics\n\nFORMAT:\n## Topic Name\nExplanation\n"

BulletPrompt ==
    "\nCreate a BULLET-POINT summary.\n\nRULES:\n- 8-12 bullet points\n- Each bullet = one clear idea\n- No explanations\n- No definitions\n- Easy to scan and act on\n"

ErrorMessage == "Unsupported or empty file."

----------------------------------------------------------------------------
(* Python values and string methods *)

None == [kind |-> "None"]
Str(s) == [kind |-> "str", value |-> s]

\* bool(v) of an Optional[str]
Truthy(v) == v.kind = "str" /\ v.value # ""

Min(a, b) == IF a < b THEN a ELSE b

CharAt(s, i) == SubSeq(s, i, i)

\* characters str.strip() removes (the ASCII ones a TLA+ string can hold)
Whitespace == {" ", "\t", "\n", "\r", "\f"}

\* s.strip(): the substring from the first to the last non-whitespace character
Strip(s) ==
    LET n == Len(s)
        IsSpace(i) == CharAt(s, i) \in Whitespace
    IN  IF \A i \in 1..n : IsSpace(i) THEN ""
        ELSE LET lo == CHOOSE i \in 1..n :
                           ~IsSpace(i) /\ \A j \in 1..(i - 1) : IsSpace(j)
                 hi == CHOOSE i \in 1..n :
                           ~IsSpace(i) /\ \A j \in (i + 1)..n : IsSpace(j)
             IN  SubSeq(s, lo, hi)

UpperCase == "ABCDEFGHIJKLMNOPQRSTUVWXYZ"
LowerCase == "abcdefghijklmnopqrstuvwxyz"

LowerChar(c) ==
    IF \E i \in 1..Len(UpperCase) : CharAt(UpperCase, i) = c
    THEN LET i == CHOOSE k \in 1..Len(UpperCase) : CharAt(UpperCase, k) = c
         IN  CharAt(LowerCase, i)
    ELSE c

RECURSIVE Lower(_)
\* s.lower()
Lower(s) == IF s = "" THEN "" ELSE LowerChar(CharAt(s, 1)) \o Lower(Tail(s))

\* s.endswith(suffix)
EndsWith(s, suffix) ==
    /\ Len(s) >= Len(suffix)
    /\ SubSeq(s, Len(s) - Len(suffix) + 1, Len(s)) = suffix

\* s.endswith((suffix, ...))
EndsWithAny(s, suffixes) == \E suffix \in suffixes : EndsWith(s, suffix)

RECURSIVE PyRange(_, _, _)
\* list(range(start, stop, step)) for step > 0
PyRange(start, stop, step) ==
    IF start >= stop THEN <<>>
    ELSE <<start>> \o PyRange(start + step, stop, step)

\* s[lo:hi] for 0 <= lo <= hi: 0-based, hi exclusive, clamped to len(s)
PySlice(s, lo, hi) == SubSeq(s, lo + 1, Min(hi, Len(s)))

RECURSIVE JoinTrailing(_, _)
\* a join that also ends the last part with the separator
JoinTrailing(sep, parts) ==
    IF parts = <<>> THEN ""
    ELSE parts[1] \o sep \o JoinTrailing(sep, Tail(parts))

RECURSIVE Join(_, _)
\* sep.join(parts)
Join(sep, parts) ==
    IF parts = <<>> THEN ""
    ELSE IF Len(parts) = 1 THEN parts[1]
    ELSE parts[1] \o sep \o Join(sep, Tail(parts))

----------------------------------------------------------------------------
(* Functions of app.py *)

RecognizedSuffixes ==
    {".pdf", ".docx", ".txt", ".csv", ".xls", ".xlsx", ".pptx", ".html", ".htm",
     ".png", ".jpg", ".jpeg"}

\* extract_text(file).  file.content stands for the plain text the format's
\* reader yields for the file (for ".txt", the UTF-8 decoding of its bytes).
extract_text(file) ==
    LET name == Lower(file.name)
    IN  IF EndsWithAny(name, RecognizedSuffixes) THEN Str(file.content)
        ELSE None

\* a guard that forgets the whitespace-only case: not text
BlankNoStrip(t) == ~Truthy(t)

\* a guard that only tests for None: text is None
BlankOnlyNone(t) == t.kind = "None"

\* the run guard: not text or not text.strip()
Blank(t) == ~Truthy(t) \/ ~Truthy(Str(Strip(t.value)))

\* a chunker whose slices end one character early: text[i:i + max_chars - 1]
chunk_text_short_slice(t, m) ==
    LET starts == PyRange(0, Len(t), m)
    IN  [k \in 1..Len(starts) |-> PySlice(t, starts[k], starts[k] + m - 1)]

\* a chunker that drops a trailing partial chunk: range(0, len(text) - max_chars + 1, max_chars)
chunk_text_full_only(t, m) ==
    LET starts == PyRange(0, Len(t) - m + 1, m)
    IN  [k \in 1..Len(starts) |-> PySlice(t, starts[k], starts[k] + m)]

\* chunk_text(text, max_chars)
chunk_text(t, m) ==
    LET starts == PyRange(0, Len(t), m)
    IN  [k \in 1..Len(starts) |-> PySlice(t, starts[k], starts[k] + m)]

\* a cap off by one: chunks[:7]
MapChunksSeven(cs) == SubSeq(cs, 1, Min(MapCap + 1, Len(cs)))

\* chunks[:6]
MapChunks(cs) == SubSeq(cs, 1, Min(MapCap, Len(cs)))

\* a dispatch with the budgets of the last two branches exchanged
SummaryModeSwapped(label) ==
    IF label = ShortLabel THEN <<ShortPrompt, 170>>
    ELSE IF label = TopicLabel THEN <<TopicPrompt, 300>>
    ELSE <<BulletPrompt, 600>>

\* the SUMMARY MODES if / elif / else: <<final_prompt, max_tokens>>
SummaryMode(label) ==
    IF label = ShortLabel THEN <<ShortPrompt, 170>>
    ELSE IF label = TopicLabel THEN <<TopicPrompt, 600>>
    ELSE <<BulletPrompt, 300>>

\* the request of the MAP STEP for one chunk
MapRequest(chunk) ==
    [model |-> MODEL, system |-> MapPrompt, user |-> chunk,
     max_tokens |-> MapMaxTokens, status |-> "pending", content |-> ""]

\* the final request
ReduceRequest(prompt, combined, budget) ==
    [model |-> MODEL, system |-> prompt, user |-> combined,
     max_tokens |-> budget, status |-> "pending", content |-> ""]

\* a display without the .strip()
RenderedRaw(content) == [widget |-> "markdown", body |-> content]

\* what st.markdown(final_response.choices[0].message.content.strip()) renders
Rendered(content) == [widget |-> "markdown", body |-> Strip(content)]

----------------------------------------------------------------------------
(* Inputs *)

RECURSIVE Rep(_, _)
\* s repeated n times
Rep(s, n) ==
    IF n = 0 THEN ""
    ELSE IF n % 2 = 0 THEN LET h == Rep(s, n \div 2) IN h \o h
    ELSE s \o Rep(s, n - 1)

Pattern == "abcdefghijklm"

\* a document of n characters; 3000 and Len(Pattern) = 13 are coprime, so
\* thirteen consecutive chunks of it all differ
Doc(n) == SubSeq(Rep(Pattern, n \div Len(Pattern) + 1), 1, n)

DocLens == {k * MaxChars + d : k \in 0..MaxBlocks, d \in {0, 1}} \ {0}

Contents ==
    {"", " ", " \n\t ", "Hello world.", Rep(" ", MaxChars) \o "tail"}
        \cup {Doc(n) : n \in DocLens}

\* extract_text takes any name; "archive.zip" ends in none of its suffixes
\* (the upload widget lists the accepted types, extract_text does not rely on it)
FileNames == {"notes.txt", "SCAN.PDF", "archive.zip"}

Files == [name : FileNames, content : Contents]

\* message contents the capability may answer with
Responses == {"key idea", "  ## Topic\nidea \n"}

RECURSIVE StringsOfLen(_)
StringsOfLen(n) ==
    IF n = 0 THEN {""}
    ELSE {s \o c : s \in StringsOfLen(n - 1), c \in {"a", " "}}

ChunkTexts == UNION {StringsOfLen(n) : n \in 0..MaxLen}

----------------------------------------------------------------------------
(* The pipeline *)

Init ==
    /\ pc = "idle"
    /\ uploaded_file \in Files
    /\ summary_type \in SummaryTypes
    /\ text = None
    /\ max_chars = MaxChars
    /\ chunks = <<>>
    /\ partial_summaries = <<>>
    /\ combined_text = ""
    /\ final_prompt = ""
    /\ max_tokens = 0
    /\ final_response = ""
    /\ requests = <<>>
    /\ ui = <<>>

\* "Generate Summary" is pressed: extraction, then the guard; either the error
\* is shown or the text is chunked and the MAP STEP starts.
Generate ==
    /\ pc = "idle"
    /\ LET t == extract_text(uploaded_file)
       IN  /\ text' = t
           /\ IF Blank(t)
              THEN /\ ui' = Append(ui, [widget |-> "error", body |-> ErrorMessage])
                   /\ pc' = "error"
                   /\ UNCHANGED <<chunks, partial_summaries>>
              ELSE /\ chunks' = chunk_text(t.value, max_chars)
                   /\ partial_summaries' = <<>>
                   /\ pc' = "map"
                   /\ UNCHANGED ui
    /\ UNCHANGED <<uploaded_file, summary_type, max_chars, combined_text,
                   final_prompt, max_tokens, final_response, requests>>

\* a MAP STEP that sends the next chunk without waiting for the response
MapSendNoWait ==
    /\ pc = "map"
    /\ Len(requests) < Len(MapChunks(chunks))
    /\ requests' = Append(requests, MapRequest(MapChunks(chunks)[Len(requests) + 1]))
    /\ pc' = "map"
    /\ UNCHANGED <<uploaded_file, summary_type, text, max_chars, chunks,
                   partial_summaries, combined_text, final_prompt, max_tokens,
                   final_response, ui>>

\* the loop of the MAP STEP has a next chunk: its request leaves
MapSend ==
    /\ pc = "map"
    /\ Len(partial_summaries) < Len(MapChunks(chunks))
    /\ requests' = Append(requests,
                          MapRequest(MapChunks(chunks)[Len(partial_summaries) + 1]))
    /\ pc' = "map_wait"
    /\ UNCHANGED <<uploaded_file, summary_type, text, max_chars, chunks,
                   partial_summaries, combined_text, final_prompt, max_tokens,
                   final_response, ui>>

\* the response arrives: partial_summaries.append(content.strip())
MapReceive ==
    /\ pc = "map_wait"
    /\ \E content \in Responses :
        /\ requests' = [requests EXCEPT ![Len(requests)] =
                           [@ EXCEPT !.status = "ok", !.content = content]]
        /\ partial_summaries' = Append(partial_summaries, Strip(content))
    /\ pc' = "map"
    /\ UNCHANGED <<uploaded_file, summary_type, text, max_chars, chunks,
                   combined_text, final_prompt, max_tokens, final_response, ui>>

\* a failure that is caught: the chunk is skipped and the script goes on
RequestFailsCaught ==
    /\ pc \in {"map_wait", "reduce_wait"}
    /\ requests' = [requests EXCEPT ![Len(requests)] = [@ EXCEPT !.status = "failed"]]
    /\ IF pc = "map_wait"
       THEN /\ partial_summaries' = Append(partial_summaries, "")
            /\ pc' = "map"
       ELSE /\ pc' = "aborted"
            /\ UNCHANGED partial_summaries
    /\ UNCHANGED <<uploaded_file, summary_type, text, max_chars, chunks,
                   combined_text, final_prompt, max_tokens, final_response, ui>>

\* the call raises (timeout, error response): nothing catches it, the script ends
RequestFails ==
    /\ pc \in {"map_wait", "reduce_wait"}
    /\ requests' = [requests EXCEPT ![Len(requests)] = [@ EXCEPT !.status = "failed"]]
    /\ pc' = "aborted"
    /\ UNCHANGED <<uploaded_file, summary_type, text, max_chars, chunks,
                   partial_summaries, combined_text, final_prompt, max_tokens,
                   final_response, ui>>

\* the loop is over: join, mode dispatch, and the final request leaves
ReduceSend ==
    /\ pc = "map"
    /\ Len(partial_summaries) >= Len(MapChunks(chunks))
    /\ LET combined == Join("\n", partial_summaries)
           mode == SummaryMode(summary_type)
       IN  /\ combined_text' = combined
           /\ final_prompt' = mode[1]
           /\ max_tokens' = mode[2]
           /\ requests' = Append(requests, ReduceRequest(mode[1], combined, mode[2]))
    /\ pc' = "reduce_wait"
    /\ UNCHANGED <<uploaded_file, summary_type, text, max_chars, chunks,
                   partial_summaries, final_response, ui>>

\* the final response arrives: st.success, st.subheader, st.markdown
ReduceReceive ==
    /\ pc = "reduce_wait"
    /\ \E content \in Responses :
        /\ requests' = [requests EXCEPT ![Len(requests)] =
                           [@ EXCEPT !.status = "ok", !.content = content]]
        /\ final_response' = content
        /\ ui' = ui \o << [widget |-> "success", body |-> "Summary Generated"],
                          [widget |-> "subheader", body |-> "Summary"],
                          Rendered(content) >>
    /\ pc' = "done"
    /\ UNCHANGED <<uploaded_file, summary_type, text, max_chars, chunks,
                   partial_summaries, combined_text, final_prompt, max_tokens>>

Next ==
    \/ Generate
    \/ MapSend
    \/ MapReceive
    \/ RequestFails
    \/ ReduceSend
    \/ ReduceReceive

Spec == Init /\ [][Next]_vars

----------------------------------------------------------------------------
(* chunk_text on its own, for every text and every max_chars of the bounds *)

InitChunk ==
    /\ pc = "call"
    /\ uploaded_file = None
    /\ summary_type = ShortLabel
    /\ text \in {Str(t) : t \in ChunkTexts}
    /\ max_chars \in 1..MaxM
    /\ chunks = <<>>
    /\ partial_summaries = <<>>
    /\ combined_text = ""
    /\ final_prompt = ""
    /\ max_tokens = 0
    /\ final_response = ""
    /\ requests = <<>>
    /\ ui = <<>>

CallChunkText ==
    /\ pc = "call"
    /\ chunks' = chunk_text(text.value, max_chars)
    /\ pc' = "returned"
    /\ UNCHANGED <<uploaded_file, summary_type, text, max_chars,
                   partial_summaries, combined_text, final_prompt, max_tokens,
                   final_response, requests, ui>>

NextChunk == CallChunkText

SpecChunk == InitChunk /\ [][NextChunk]_vars

----------------------------------------------------------------------------
(* Vocabulary of the properties *)

IsMapRequest(r) == r.system = MapPrompt
IsReduceRequest(r) == r.system # MapPrompt

\* the map requests and the reduce requests sent so far, in the order sent
MapRequestsSent == SelectSeq(requests, IsMapRequest)
ReduceRequestsSent == SelectSeq(requests, IsReduceRequest)

\* the run passed the guard and entered the map stage
ReachedMapStage == pc \in {"map", "map_wait", "reduce_wait", "done", "aborted"}

AllSpace(s) == \A i \in 1..Len(s) : CharAt(s, i) \in Whitespace

\* b is c with its leading and trailing whitespace removed
TrimOf(b, c) ==
    IF AllSpace(c) THEN b = ""
    ELSE /\ b # ""
         /\ CharAt(b, 1) \notin Whitespace
         /\ CharAt(b, Len(b)) \notin Whitespace
         /\ \E i \in 0..(Len(c) - Len(b)) :
               /\ SubSeq(c, i + 1, i + Len(b)) = b
               /\ AllSpace(SubSeq(c, 1, i))
               /\ AllSpace(SubSeq(c, i + Len(b) + 1, Len(c)))

RECURSIVE Concat(_)
Concat(parts) == IF parts = <<>> THEN "" ELSE Head(parts) \o Concat(Tail(parts))

RECURSIVE Offset(_, _)
\* where the i-th part starts in a text that holds the parts one separator apart
Offset(parts, i) ==
    IF i = 1 THEN 0 ELSE Offset(parts, i - 1) + Len(parts[i - 1]) + 1

\* u is the parts in order, a single newline between neighbours and nothing else
NewlineJoined(u, parts) ==
    LET n == Len(parts)
    IN  /\ n >= 1
        /\ Len(u) = Offset(parts, n) + Len(parts[n])
        /\ \A i \in 1..n :
              SubSeq(u, Offset(parts, i) + 1, Offset(parts, i) + Len(parts[i])) = parts[i]
        /\ \A i \in 1..(n - 1) :
              CharAt(u, Offset(parts, i) + Len(parts[i]) + 1) = "\n"

HasWidget(w) == \E i \in 1..Len(ui) : ui[i].widget = w

----------------------------------------------------------------------------
(* C1 *)

\* C1: a run that reaches the map stage with K chunks never sends more than
\* min(K,6) map requests, the i-th map request carries the i-th chunk, the
\* i-th partial summary is the (trimmed) content of the response to the i-th
\* map request, and once the map stage is over exactly min(K,6) map requests
\* have been sent; so no chunk beyond the sixth is sent.
C1_MapStage ==
    ReachedMapStage =>
        LET K == Len(chunks)
            n == IF K < 6 THEN K ELSE 6
            sent == MapRequestsSent
        IN  /\ Len(sent) <= n
            /\ \A i \in 1..Len(sent) : sent[i].user = chunks[i]
            /\ Len(partial_summaries) <= Len(sent)
            /\ \A i \in 1..Len(partial_summaries) :
                  /\ sent[i].status = "ok"
                  /\ TrimOf(partial_summaries[i], sent[i].content)
            /\ \A i \in 1..Len(sent) :
                  sent[i].status = "ok" => i <= Len(partial_summaries)
            /\ (pc \in {"reduce_wait", "done"} \/ ReduceRequestsSent # <<>>)
                  => (Len(sent) = n /\ Len(partial_summaries) = n)

\* ten chunks, six map requests, the summary shown, two different responses
C1_Witness ==
    /\ pc = "done"
    /\ Len(chunks) = 10
    /\ Len(MapRequestsSent) = 6
    /\ MapRequestsSent[1].content # MapRequestsSent[2].content
    /\ partial_summaries[1] # partial_summaries[2]

----------------------------------------------------------------------------
(* C2 *)

\* C2: for every text and every max_chars > 0, the chunks chunk_text returns,
\* concatenated in order, are the text.
C2_RoundTrip ==
    pc = "returned" => Concat(chunks) = text.value

\* a call that returned several chunks, the last one shorter than max_chars
C2_Witness ==
    /\ pc = "returned"
    /\ Len(chunks) >= 3
    /\ Len(chunks[Len(chunks)]) < max_chars
    /\ Concat(chunks) = text.value

----------------------------------------------------------------------------
(* C3 *)

\* C3: chunk_text(T, M) returns ceil(len(T)/M) chunks; every chunk but the
\* last has exactly M characters, the last has between 1 and M; an empty T
\* gives no chunk and a non-empty T of at most M characters gives one.
C3_SizesAndCount ==
    pc = "returned" =>
        LET n == Len(text.value)
            m == max_chars
            k == Len(chunks)
        IN  /\ k = (n + m - 1) \div m
            /\ \A i \in 1..(k - 1) : Len(chunks[i]) = m
            /\ k >= 1 => (1 <= Len(chunks[k]) /\ Len(chunks[k]) <= m)
            /\ n = 0 => chunks = <<>>
            /\ (1 <= n /\ n <= m) => k = 1

\* a text whose length is no multiple of max_chars, cut in two chunks or more
C3_Witness ==
    /\ pc = "returned"
    /\ Len(text.value) % max_chars # 0
    /\ Len(chunks) >= 2
    /\ Len(chunks[1]) = max_chars

----------------------------------------------------------------------------
(* C4 *)

\* C4: when extraction gives None, the empty string or whitespace only, the
\* run shows the error "Unsupported or empty file." and nothing else, and
\* sends no request to the capability.
C4_EmptyOrUnsupported ==
    (pc # "idle" /\ (text.kind = "None" \/ AllSpace(text.value))) =>
        /\ pc = "error"
        /\ ui = << [widget |-> "error", body |-> "Unsupported or empty file."] >>
        /\ requests = <<>>
        /\ ~HasWidget("markdown")

\* a recognised file whose text is whitespace only has been refused
C4_Witness ==
    /\ pc = "error"
    /\ text.kind = "str"
    /\ text.value = " \n\t "
    /\ HasWidget("error")

\* C4 (unrecognised extension): extraction of a file whose name ends in none
\* of the recognised suffixes gives None, whatever the file holds.
C4_UnsupportedWitness ==
    /\ pc = "error"
    /\ uploaded_file.name = "archive.zip"
    /\ uploaded_file.content # ""
    /\ text.kind = "None"

----------------------------------------------------------------------------
(* C5 *)

\* C5: a failed request is the last request of its run: nothing is sent after
\* it (no later map request, no reduce request, no second attempt), the run is
\* aborted, and nothing is on the page.
C5_FailFast ==
    /\ \A i \in 1..Len(requests) :
          requests[i].status = "failed" =>
              /\ i = Len(requests)
              /\ pc = "aborted"
              /\ ui = <<>>
    /\ pc = "aborted" =>
          /\ requests # <<>>
          /\ requests[Len(requests)].status = "failed"
          /\ ~ENABLED Next

\* the third map request of a long document failed
C5_Witness ==
    /\ pc = "aborted"
    /\ Len(chunks) >= 6
    /\ Len(requests) = 3
    /\ Len(partial_summaries) = 2
    /\ requests[3].status = "failed"

----------------------------------------------------------------------------
(* C6 *)

\* C6: a run whose map stage is over can send the reduce request, sends it
\* once, and its user message is the partial summaries in chunk order with a
\* single newline between neighbours (one partial summary: that summary).
C6_Reduce ==
    /\ Len(ReduceRequestsSent) <= 1
    /\ (pc = "map" /\ Len(partial_summaries) = Len(MapRequestsSent)
                   /\ Len(MapRequestsSent) = (IF Len(chunks) < 6 THEN Len(chunks) ELSE 6))
          => ENABLED ReduceSend
    /\ pc \in {"reduce_wait", "done"} => Len(ReduceRequestsSent) = 1
    /\ \A i \in 1..Len(requests) :
          IsReduceRequest(requests[i]) =>
              /\ i = Len(requests)
              /\ NewlineJoined(requests[i].user, partial_summaries)
              /\ Len(partial_summaries) = 1 => requests[i].user = partial_summaries[1]

\* three chunks, three partial summaries, the reduce request sent
C6_Witness ==
    /\ pc = "reduce_wait"
    /\ Len(partial_summaries) = 3
    /\ Len(ReduceRequestsSent) = 1
    /\ partial_summaries[1] # partial_summaries[2]

----------------------------------------------------------------------------
(* C7 *)

\* C7: the reduce request's system prompt and budget are those of the selected
\* label (short: 170, topic-wise: 600, bullet: 300), the three prompts differ,
\* and every map request has budget 120 whatever the label.
C7_ModeDispatch ==
    /\ \A i \in 1..Len(requests) :
          IF IsMapRequest(requests[i])
          THEN requests[i].max_tokens = 120
          ELSE \/ /\ summary_type = "Short Summary (Recommended)"
                  /\ requests[i].system = ShortPrompt
                  /\ requests[i].max_tokens = 170
               \/ /\ summary_type = "Topic-wise Summary"
                  /\ requests[i].system = TopicPrompt
                  /\ requests[i].max_tokens = 600
               \/ /\ summary_type = "Bullet-point Summary"
                  /\ requests[i].system = BulletPrompt
                  /\ requests[i].max_tokens = 300
    /\ Cardinality({ShortPrompt, TopicPrompt, BulletPrompt}) = 3

\* a topic-wise run sent its reduce request after map requests
C7_Witness ==
    /\ summary_type = "Topic-wise Summary"
    /\ Len(MapRequestsSent) >= 2
    /\ Len(ReduceRequestsSent) = 1
    /\ ReduceRequestsSent[1].max_tokens = 600

----------------------------------------------------------------------------
(* C8 *)

\* C8 as stated: the displayed summary is the trimmed reduce response, shown
\* as markdown in the topic-wise mode only and as plain text in the other two.
C8_AsStated ==
    pc = "done" =>
        LET shown == ui[Len(ui)]
        IN  /\ TrimOf(shown.body, requests[Len(requests)].content)
            /\ shown.widget =
                  (IF summary_type = "Topic-wise Summary" THEN "markdown" ELSE "text")

\* C8 amended: the displayed summary is the trimmed reduce response, and it
\* is shown with st.markdown in every mode; it is on the page only once the
\* run is done.
C8_Rendering ==
    /\ pc = "done" =>
          LET shown == ui[Len(ui)]
          IN  /\ Len(ui) = 3
              /\ TrimOf(shown.body, requests[Len(requests)].content)
              /\ requests[Len(requests)].content = final_response
              /\ IsReduceRequest(requests[Len(requests)])
              /\ shown.widget = "markdown"
              /\ ui[1].widget = "success" /\ ui[2].widget = "subheader"
    /\ HasWidget("markdown") => pc = "done"

\* a short-summary run displayed a response that had whitespace around it
C8_Witness ==
    /\ pc = "done"
    /\ summary_type = "Short Summary (Recommended)"
    /\ ui[Len(ui)].widget = "markdown"
    /\ ui[Len(ui)].body # final_response

----------------------------------------------------------------------------
(* C9 *)

\* C9: at most one request is without its response; a request is sent only
\* when every earlier one has been answered; the reduce request is sent only
\* after min(K,6) answered map requests; the summary is shown only after the
\* reduce response.
C9_Sequential ==
    /\ Cardinality({i \in 1..Len(requests) : requests[i].status = "pending"}) <= 1
    /\ \A i \in 1..(Len(requests) - 1) : requests[i].status = "ok"
    /\ \A i \in 1..Len(requests) :
          IsReduceRequest(requests[i]) =>
              /\ i - 1 = (IF Len(chunks) < 6 THEN Len(chunks) ELSE 6)
              /\ \A j \in 1..(i - 1) :
                    IsMapRequest(requests[j]) /\ requests[j].status = "ok"
    /\ HasWidget("markdown") =>
          /\ requests # <<>>
          /\ IsReduceRequest(requests[Len(requests)])
          /\ requests[Len(requests)].status = "ok"

\* six answered map requests and the reduce request in flight
C9_Witness ==
    /\ pc = "reduce_wait"
    /\ Len(requests) = 7
    /\ requests[7].status = "pending"
    /\ \A i \in 1..6 : requests[i].status = "ok"

----------------------------------------------------------------------------
(* C10 *)

\* C10: a run that passes the guard has at least one chunk; every chunk sent
\* has between 1 and 3000 characters; a run that shows a summary has sent
\* between 1 and 6 map requests and then 1 reduce request, 2 to 7 in all, and
\* had at least one partial summary.
C10_AtLeastOneChunk ==
    /\ ReachedMapStage => Len(chunks) >= 1
    /\ \A i \in 1..Len(requests) :
          IsMapRequest(requests[i]) =>
              (1 <= Len(requests[i].user) /\ Len(requests[i].user) <= 3000)
    /\ (pc = "done" \/ HasWidget("markdown")) =>
          /\ 2 <= Len(requests) /\ Len(requests) <= 7
          /\ 1 <= Len(MapRequestsSent) /\ Len(MapRequestsSent) <= 6
          /\ Len(ReduceRequestsSent) = 1
          /\ IsReduceRequest(requests[Len(requests)])
          /\ Len(partial_summaries) >= 1

\* the smallest run: "Hello world." gives one chunk, one map request, one
\* reduce request and the summary
C10_Witness ==
    /\ pc = "done"
    /\ text.kind = "str"
    /\ text.value = "Hello world."
    /\ Len(chunks) = 1
    /\ Len(requests) = 2

====
